---- MODULE Spec2Model ----
(***************************************************************************)
(* A model of core/functions.py: the per-step progress callback            *)
(* (pytorch_callback) driven by a sampling loop and an interrupting        *)
(* controller, the image metadata reader (image_meta_from_file) and the    *)
(* model input preprocessor (preprocess_image).                            *)
(***************************************************************************)
EXTENDS Integers, Sequences, FiniteSets, TLC

\* ------------------------------------------------------------------ bounds

\* The largest preview cadence (shared.image_decode_steps) a run is given.
MaxCadence == 3
\* The largest total-steps value (shared.current_steps) a run is given.
MaxTotal == 50
\* The sampling loop passes zero-based indices 0 .. MaxIndex - 1.
MaxIndex == 51
\* The controller requests an interruption at most this many times.
MaxSets == 2

\* ------------------------------------------------------------------- state

VARIABLES
    interrupt,           \* shared.interrupt
    image_decode_steps,  \* shared.image_decode_steps
    current_steps,       \* shared.current_steps
    pc,                  \* the sampling loop: "idle" or "running"
    i,                   \* the zero-based index the loop passes next
    msgs,                \* what broadcast_sync was handed during this run, in order
    outcome,             \* how the step just taken ended, if it was a callback
                         \* invocation: "published" or "raised"; else "none"
    invocations,         \* callback invocations of this run
    cancelled,           \* InferenceInterruptedError raised during this run
    nSet,                \* writes of True to shared.interrupt by the controller
    nEdge,               \* those writes that found the flag clear
    nRaise,              \* InferenceInterruptedError raised, all runs
    text,                \* image.text of the file image_meta_from_file opens
    meta,                \* how image_meta_from_file(path) ended
    image,               \* the argument of preprocess_image
    pre                  \* how preprocess_image(image) ended

callbackVars == <<interrupt, image_decode_steps, current_steps, pc, i, msgs, outcome,
                  invocations, cancelled, nSet, nEdge, nRaise>>
metaVars == <<text, meta>>
preVars == <<image, pre>>
vars == <<callbackVars, metaVars, preVars>>

\* No call made yet.
NotCalled == [kind |-> "none"]

\* --------------------------------------------- Python float arithmetic

\* A positive IEEE-754 double is [m, e]: m = <<1, L1, L2, L3, L4>> is the 53-bit
\* significand, a leading 1 and NumLimbs limbs of LimbBits bits; e is the
\* exponent of the leading bit.
LimbBits == 13
NumLimbs == 4
LimbBase == 2^LimbBits

\* floor(log2(n / d)) for positive integers n, d.
RECURSIVE FloorLog2(_, _)
FloorLog2(n, d) ==
    IF n >= d THEN (IF n >= 2 * d THEN 1 + FloorLog2(n, 2 * d) ELSE 0)
    ELSE FloorLog2(2 * n, d) - 1

\* Long division, one limb per step: the significand of (d + r) / d, r < d, and
\* the remainder left after its last bit.
RECURSIVE LongDiv(_, _, _)
LongDiv(limbs, r, d) ==
    IF Len(limbs) = NumLimbs + 1 THEN [m |-> limbs, r |-> r]
    ELSE LongDiv(Append(limbs, (r * LimbBase) \div d), (r * LimbBase) % d, d)

\* The significand plus one unit in the last place, the carry running upward.
RECURSIVE Increment(_, _)
Increment(m, k) ==
    IF k = 1 THEN [m EXCEPT ![1] = m[1] + 1]
    ELSE IF m[k] + 1 < LimbBase THEN [m EXCEPT ![k] = m[k] + 1]
    ELSE Increment([m EXCEPT ![k] = 0], k - 1)

\* Rounding upward; a carry out of the significand (m[1] = 2) raises the exponent.
RoundUp(m, e) ==
    LET inc == Increment(m, NumLimbs + 1)
    IN IF inc[1] = 2 THEN [m |-> [inc EXCEPT ![1] = 1], e |-> e + 1]
       ELSE [m |-> inc, e |-> e]

\* s / t for Python ints: true division, rounded to nearest, ties to even.
FloatDiv(s, t) ==
    LET e  == FloorLog2(s, t)
        n0 == IF e >= 0 THEN s ELSE s * 2^(0 - e)
        d0 == IF e >= 0 THEN t * 2^e ELSE t
        q  == LongDiv(<<1>>, n0 - d0, d0)
        up == 2 * q.r > d0 \/ (2 * q.r = d0 /\ q.m[NumLimbs + 1] % 2 = 1)
    IN IF up THEN RoundUp(q.m, e) ELSE [m |-> q.m, e |-> e]

\* The carry into limb k of the exact product m * c.
RECURSIVE CarryInto(_, _, _)
CarryInto(m, c, k) ==
    IF k = NumLimbs + 1 THEN 0
    ELSE (m[k + 1] * c + CarryInto(m, c, k + 1)) \div LimbBase

\* The exact product m * c; its leading limb holds what exceeds 53 bits.
MulSmall(m, c) ==
    [k \in 1..(NumLimbs + 1) |->
        IF k = 1 THEN m[1] * c + CarryInto(m, c, 1)
        ELSE (m[k] * c + CarryInto(m, c, k)) % LimbBase]

RECURSIVE BitLength(_)
BitLength(n) == IF n = 0 THEN 0 ELSE 1 + BitLength(n \div 2)

\* p shifted right by drop bits (drop < LimbBits): each limb takes the low bits
\* of the limb above it.
ShiftRight(p, drop) ==
    [k \in 1..(NumLimbs + 1) |->
        IF k = 1 THEN p[1] \div 2^drop
        ELSE (p[k - 1] % 2^drop) * (LimbBase \div 2^drop) + p[k] \div 2^drop]

\* x * c for a double x and a small Python int c: the exact product rounded to
\* 53 bits, to nearest, ties to even.
FloatMulInt(x, c) ==
    LET p    == MulSmall(x.m, c)
        drop == BitLength(p[1]) - 1
        kept == ShiftRight(p, drop)
        tail == p[NumLimbs + 1] % 2^drop
        half == 2^drop \div 2
        up   == drop > 0 /\ (tail > half \/ (tail = half /\ kept[NumLimbs + 1] % 2 = 1))
    IN IF up THEN RoundUp(kept, x.e + drop) ELSE [m |-> kept, e |-> x.e + drop]

\* int(x): truncation. The integer part lies in the leading bit and two limbs
\* (x below 2^26, far above any percentage the bounds reach).
FloatToInt(x) ==
    IF x.e < 0 THEN 0
    ELSE 2^x.e + (x.m[2] * LimbBase + x.m[3]) \div 2^(2 * LimbBits - x.e)

\* ------------------------------------------------------ pytorch_callback

\* step = int(data["i"]) + 1
StepNumber(data) == data.i + 1

\* send_image = step % shared.image_decode_steps == 0
SendImageOnIndex(step) == (step - 1) % image_decode_steps = 0
SendImage(step) == step % image_decode_steps = 0

\* int((step / shared.current_steps) * 100)
ProgressOfNextStep(step) == FloatToInt(FloatMulInt(FloatDiv(step + 1, current_steps), 100))
Progress(step) == FloatToInt(FloatMulInt(FloatDiv(step, current_steps), 100))

\* core.utils.convert_image_to_base64 of the rendered preview: the base64 text
\* of an encoded image file, which is never empty. The pixels are not modelled.
convert_image_to_base64 == "iVBORw0KGgo="

\* The Data(...) handed to broadcast_sync.
Message(data) ==
    LET step == StepNumber(data)
    IN [data_type    |-> "txt2img",
        progress     |-> Progress(step),
        current_step |-> step,
        total_steps  |-> current_steps,
        image        |-> IF SendImage(step) THEN convert_image_to_base64 ELSE ""]

\* websocket_manager.broadcast_sync: the channel keeps what it is handed, in order.
broadcast_sync(m) == msgs' = Append(msgs, m)

\* Mutants of the callback: one that checks the flag only after publishing, one
\* that publishes every message twice, one that puts the newest message first,
\* one that leaves the flag set, one that rewinds the step count.
pytorch_callback_late(data) ==
    /\ broadcast_sync(Message(data))
    /\ interrupt' = FALSE
    /\ outcome' = IF interrupt THEN "raised" ELSE "published"
    /\ UNCHANGED <<image_decode_steps, current_steps>>

pytorch_callback_front(data) ==
    IF interrupt
    THEN /\ interrupt' = FALSE
         /\ outcome' = "raised"
         /\ UNCHANGED <<msgs, image_decode_steps, current_steps>>
    ELSE /\ msgs' = <<Message(data)>> \o msgs
         /\ outcome' = "published"
         /\ UNCHANGED <<interrupt, image_decode_steps, current_steps>>

pytorch_callback_twice(data) ==
    IF interrupt
    THEN /\ interrupt' = FALSE
         /\ outcome' = "raised"
         /\ UNCHANGED <<msgs, image_decode_steps, current_steps>>
    ELSE /\ msgs' = Append(Append(msgs, Message(data)), Message(data))
         /\ outcome' = "published"
         /\ UNCHANGED <<interrupt, image_decode_steps, current_steps>>

pytorch_callback_sticky(data) ==
    IF interrupt
    THEN /\ outcome' = "raised"
         /\ UNCHANGED <<interrupt, msgs, image_decode_steps, current_steps>>
    ELSE /\ broadcast_sync(Message(data))
         /\ outcome' = "published"
         /\ UNCHANGED <<interrupt, image_decode_steps, current_steps>>

pytorch_callback_reset(data) ==
    IF interrupt
    THEN /\ interrupt' = FALSE
         /\ outcome' = "raised"
         /\ UNCHANGED <<msgs, image_decode_steps, current_steps>>
    ELSE /\ broadcast_sync(Message(data))
         /\ outcome' = "published"
         /\ current_steps' = IF StepNumber(data) = current_steps THEN 1 ELSE current_steps
         /\ UNCHANGED <<interrupt, image_decode_steps>>

\* One invocation: the interruption check, then the message.
pytorch_callback(data) ==
    IF interrupt
    THEN /\ interrupt' = FALSE
         /\ outcome' = "raised"
         /\ UNCHANGED <<msgs, image_decode_steps, current_steps>>
    ELSE /\ broadcast_sync(Message(data))
         /\ outcome' = "published"
         /\ UNCHANGED <<interrupt, image_decode_steps, current_steps>>

\* ------------------------------------------- the callback's environment

\* The job runner sets the shared state and starts the sampling loop.
StartRun ==
    /\ pc = "idle"
    /\ \E n \in 1..MaxCadence, t \in 1..MaxTotal :
          /\ image_decode_steps' = n
          /\ current_steps' = t
    /\ pc' = "running"
    /\ i' = 0
    /\ msgs' = <<>>
    /\ outcome' = "none"
    /\ invocations' = 0
    /\ cancelled' = 0
    /\ UNCHANGED <<interrupt, nSet, nEdge, nRaise, metaVars, preVars>>

\* The sampling loop calls the callback with its next index; a raised
\* InferenceInterruptedError unwinds the loop.
SamplerStep ==
    /\ pc = "running"
    /\ i < MaxIndex
    /\ pytorch_callback([i |-> i])
    /\ invocations' = invocations + 1
    /\ IF outcome' = "raised"
       THEN /\ pc' = "idle"
            /\ cancelled' = cancelled + 1
            /\ nRaise' = nRaise + 1
            /\ UNCHANGED i
       ELSE /\ i' = i + 1
            /\ UNCHANGED <<pc, cancelled, nRaise>>
    /\ UNCHANGED <<nSet, nEdge, metaVars, preVars>>

\* The sampling loop ends after its last step.
FinishRun ==
    /\ pc = "running"
    /\ pc' = "idle"
    /\ outcome' = "none"
    /\ UNCHANGED <<interrupt, image_decode_steps, current_steps, i, msgs,
                   invocations, cancelled, nSet, nEdge, nRaise, metaVars, preVars>>

\* The controller requests an interruption, whether or not one is pending and
\* whether or not a run is in progress.
SetInterrupt ==
    /\ nSet < MaxSets
    /\ interrupt' = TRUE
    /\ nSet' = nSet + 1
    /\ nEdge' = IF interrupt THEN nEdge ELSE nEdge + 1
    /\ outcome' = "none"
    /\ UNCHANGED <<image_decode_steps, current_steps, pc, i, msgs, invocations,
                   cancelled, nRaise, metaVars, preVars>>

\* -------------------------------------------------- image_meta_from_file

\* Text is a sequence of characters. The keyword arguments of ImageMetadata(...)
\* in the order Python evaluates them, each with the conversion applied to it.
Fields == <<"prompt", "negative_prompt", "height", "width", "seed",
            "guidance_scale", "steps", "model">>
Conversion == <<"str", "str", "int", "int", "str", "float", "int", "str">>
FieldSet == {Fields[k] : k \in 1..Len(Fields)}

Digits == <<"0", "1", "2", "3", "4", "5", "6", "7", "8", "9">>
IsDigit(c) == \E d \in 1..Len(Digits) : Digits[d] = c
DigitValue(c) == (CHOOSE d \in 1..Len(Digits) : Digits[d] = c) - 1

\* The number a run of digits denotes, in base ten.
RECURSIVE DecimalValue(_)
DecimalValue(s) ==
    IF s = <<>> THEN 0
    ELSE 10 * DecimalValue(SubSeq(s, 1, Len(s) - 1)) + DigitValue(s[Len(s)])

\* int(s) for s over digits, "." and letters: the digits' value, or ValueError.
ParseInt(s) ==
    IF s # <<>> /\ \A k \in 1..Len(s) : IsDigit(s[k])
    THEN [ok |-> TRUE, value |-> DecimalValue(s)]
    ELSE [ok |-> FALSE]

\* A decimal mant / 10^scale without trailing zeros in its fraction.
RECURSIVE Normalised(_, _)
Normalised(mant, scale) ==
    IF scale > 0 /\ mant % 10 = 0 THEN Normalised(mant \div 10, scale - 1)
    ELSE [mant |-> mant, scale |-> scale]

\* float(s) for s over digits, "." and letters: digits around at most one ".",
\* at least one digit, or ValueError. The double is named by the decimal it is
\* nearest to (distinct decimals of up to 15 digits are distinct doubles).
ParseFloat(s) ==
    LET dots   == {k \in 1..Len(s) : s[k] = "."}
        digits == SelectSeq(s, IsDigit)
    IN IF /\ \A k \in 1..Len(s) : IsDigit(s[k]) \/ s[k] = "."
          /\ Cardinality(dots) <= 1
          /\ digits # <<>>
       THEN [ok |-> TRUE,
             value |-> Normalised(DecimalValue(digits),
                                  IF dots = {} THEN 0
                                  ELSE Len(s) - (CHOOSE k \in dots : TRUE))]
       ELSE [ok |-> FALSE]

\* What evaluating the k-th keyword argument does: text[key] raises KeyError for
\* an absent key, then int() or float() raises ValueError for a malformed number.
FieldFailure(t, k) ==
    IF Fields[k] \notin DOMAIN t THEN "KeyError"
    ELSE IF Conversion[k] = "int" /\ ~ParseInt(t[Fields[k]]).ok THEN "ValueError"
    ELSE IF Conversion[k] = "float" /\ ~ParseFloat(t[Fields[k]]).ok THEN "ValueError"
    ELSE "none"

FieldValue(t, k) ==
    IF Conversion[k] = "int" THEN ParseInt(t[Fields[k]]).value
    ELSE IF Conversion[k] = "float" THEN ParseFloat(t[Fields[k]]).value
    ELSE t[Fields[k]]

\* The record of the except branch.
FallbackMetadata ==
    [prompt |-> <<>>, negative_prompt |-> <<>>, height |-> 0, width |-> 0,
     seed |-> <<>>, guidance_scale |-> [mant |-> 0, scale |-> 0], steps |-> 0,
     model |-> <<>>]

\* The record of the try branch.
ParsedMetadata(t) ==
    [prompt          |-> FieldValue(t, 1),
     negative_prompt |-> FieldValue(t, 2),
     height          |-> FieldValue(t, 3),
     width           |-> FieldValue(t, 4),
     seed            |-> FieldValue(t, 5),
     guidance_scale  |-> FieldValue(t, 6),
     steps           |-> FieldValue(t, 7),
     model           |-> FieldValue(t, 8)]

\* A mutant: the handler also catches ValueError.
image_meta_from_file_lenient(t) ==
    IF \A k \in 1..Len(Fields) : FieldFailure(t, k) = "none"
    THEN [kind |-> "returned", value |-> ParsedMetadata(t)]
    ELSE [kind |-> "returned", value |-> FallbackMetadata]

\* The first argument that fails decides: KeyError is caught, ValueError is not.
image_meta_from_file(t) ==
    LET failing == {k \in 1..Len(Fields) : FieldFailure(t, k) # "none"}
        first   == CHOOSE k \in failing : \A j \in failing : k <= j
    IN IF failing = {} THEN [kind |-> "returned", value |-> ParsedMetadata(t)]
       ELSE IF FieldFailure(t, first) = "KeyError"
            THEN [kind |-> "returned", value |-> FallbackMetadata]
            ELSE [kind |-> "raised", error |-> FieldFailure(t, first)]

\* The embedded text a file may carry: any subset of the keys, each with text
\* that may or may not be a number.
TextValues == {<<>>, <<"4", "2">>}
NumberValues == {<<"5", "1", "2">>, <<"7", ".", "5">>, <<"x">>}
Candidates ==
    [prompt : TextValues, negative_prompt : TextValues, height : NumberValues,
     width : NumberValues, seed : TextValues, guidance_scale : NumberValues,
     steps : NumberValues, model : TextValues]

ReadMetadata ==
    /\ meta = NotCalled
    /\ meta' = image_meta_from_file(text)
    /\ UNCHANGED <<text, callbackVars, preVars>>

\* ------------------------------------------------------- preprocess_image

\* The largest list preprocess_image is given.
MaxImages == 2

\* A decoded image has a size (w, h), a mode and, being of a single colour, one
\* 8-bit sample value. A tensor has a shape and one value for each batch entry.
Widths == {20, 64, 500}
Heights == {64, 700}
Modes == {"RGB", "RGBA", "L"}
Samples == {0, 255}
Images == [type : {"Image"}, w : Widths, h : Heights, mode : Modes, px : Samples]
TensorValues == {[num |-> 2 * v - 255, den |-> 255] : v \in Samples}
Tensors ==
    UNION {[type : {"Tensor"}, shape : {<<b, 3, 64, w>> : w \in {64, 128}},
            data : [1..b -> TensorValues]] : b \in 1..2}

Raised(e) == [kind |-> "raised", error |-> e]

\* w, h = map(lambda x: x - x % 32, (w, h))
\* A mutant: rounding up to the next multiple.
RoundUp32(x) == x + ((32 - (x % 32)) % 32)
Round32(x) == x - (x % 32)

\* Image.resize((w, h)): the image at that size; PIL refuses an empty size.
Resize(img, w, h) ==
    IF w < 1 \/ h < 1 THEN Raised("ValueError")
    ELSE [kind |-> "image", img |-> [img EXCEPT !.w = w, !.h = h]]

\* np.array(img)[None, :]: rows, columns and, unless the mode has one band, the
\* bands, behind a new leading axis of length one.
ToArray(img) ==
    [shape |-> IF img.mode = "L" THEN <<1, img.h, img.w>>
               ELSE <<1, img.h, img.w, IF img.mode = "RGB" THEN 3 ELSE 4>>,
     data  |-> <<img.px>>]

RECURSIVE Sum(_)
Sum(s) == IF s = <<>> THEN 0 ELSE s[1] + Sum(Tail(s))

RECURSIVE Flatten(_)
Flatten(s) == IF s = <<>> THEN <<>> ELSE s[1] \o Flatten(Tail(s))

\* np.concatenate(arrays, axis=0) and torch.cat(tensors, dim=0): the arrays end
\* to end in the order given, if they agree on every other axis.
Concatenate(arrays) ==
    IF \A k \in 1..Len(arrays) : Tail(arrays[k].shape) = Tail(arrays[1].shape)
    THEN [kind  |-> "array",
          shape |-> <<Sum([k \in 1..Len(arrays) |-> arrays[k].shape[1]])>>
                    \o Tail(arrays[1].shape),
          data  |-> Flatten([k \in 1..Len(arrays) |-> arrays[k].data])]
    ELSE Raised("ValueError")

\* image.transpose(0, 3, 1, 2)
Transpose(a) ==
    IF Len(a.shape) = 4
    THEN [kind |-> "array", shape |-> <<a.shape[1], a.shape[4], a.shape[2], a.shape[3]>>,
          data |-> a.data]
    ELSE Raised("ValueError")

\* 2.0 * (v / 255.0) - 1.0, as the exact fraction (2v - 255) / 255.
Scale(v) == [num |-> 2 * v - 255, den |-> 255]

\* The list-of-images branch.
PreprocessImages(items) ==
    LET w == Round32(items[1].w)
        h == Round32(items[1].h)
        resized == [k \in 1..Len(items) |-> Resize(items[k], w, h)]
    IN IF \E k \in 1..Len(items) : resized[k].kind = "raised" THEN Raised("ValueError")
       ELSE LET batch == Concatenate([k \in 1..Len(items) |-> ToArray(resized[k].img)])
            IN IF batch.kind = "raised" THEN batch
               ELSE LET moved == Transpose(batch)
                    IN IF moved.kind = "raised" THEN moved
                       ELSE [kind  |-> "tensor", type |-> "Tensor", shape |-> moved.shape,
                             data  |-> [k \in 1..Len(moved.data) |-> Scale(moved.data[k])]]

\* The dispatch on the argument's type, then on its first element's.
preprocess_image(arg) ==
    IF arg.kind = "tensor"
    THEN [kind |-> "tensor", type |-> "Tensor", shape |-> arg.t.shape, data |-> arg.t.data]
    ELSE LET items == IF arg.kind = "image" THEN <<arg.img>> ELSE arg.items
         IN IF items = <<>> THEN Raised("IndexError")
            ELSE IF items[1].type = "Image" THEN PreprocessImages(items)
            ELSE LET joined == Concatenate(items)
                 IN IF joined.kind = "raised" THEN Raised("RuntimeError")
                    ELSE [kind |-> "tensor", type |-> "Tensor", shape |-> joined.shape,
                          data |-> joined.data]

\* What a caller passes: a tensor, an image, a list of images or of tensors.
Lists(S) == UNION {[1..n -> S] : n \in 0..MaxImages}
Arguments ==
    {[kind |-> "tensor", t |-> t] : t \in Tensors}
    \cup {[kind |-> "image", img |-> img] : img \in Images}
    \cup {[kind |-> "list", items |-> l] : l \in Lists(Images) \cup Lists(Tensors)}

Preprocess ==
    /\ pre = NotCalled
    /\ image # NotCalled
    /\ pre' = preprocess_image(image)
    /\ UNCHANGED <<image, callbackVars, metaVars>>

\* --------------------------------------------------------- specifications

CallbackInit ==
    /\ interrupt = FALSE
    /\ image_decode_steps \in 1..MaxCadence
    /\ current_steps \in 1..MaxTotal
    /\ pc = "idle"
    /\ i = 0
    /\ msgs = <<>>
    /\ outcome = "none"
    /\ invocations = 0
    /\ cancelled = 0
    /\ nSet = 0
    /\ nEdge = 0
    /\ nRaise = 0

\* The callback under its sampling loop and the controller.
Init ==
    /\ CallbackInit
    /\ text = <<>> /\ meta = NotCalled
    /\ image = NotCalled /\ pre = NotCalled

Next == StartRun \/ SamplerStep \/ FinishRun \/ SetInterrupt

Spec == Init /\ [][Next]_vars

\* image_meta_from_file on every file of the candidates.
InitMeta ==
    /\ \E keys \in SUBSET FieldSet, c \in Candidates : text = [k \in keys |-> c[k]]
    /\ meta = NotCalled
    /\ image = NotCalled /\ pre = NotCalled
    /\ interrupt = FALSE /\ image_decode_steps = 1 /\ current_steps = 1
    /\ pc = "idle" /\ i = 0 /\ msgs = <<>> /\ outcome = "none"
    /\ invocations = 0 /\ cancelled = 0 /\ nSet = 0 /\ nEdge = 0 /\ nRaise = 0

NextMeta == ReadMetadata

SpecMeta == InitMeta /\ [][NextMeta]_vars

\* preprocess_image on every argument.
InitPre ==
    /\ image \in Arguments
    /\ pre = NotCalled
    /\ text = <<>> /\ meta = NotCalled
    /\ interrupt = FALSE /\ image_decode_steps = 1 /\ current_steps = 1
    /\ pc = "idle" /\ i = 0 /\ msgs = <<>> /\ outcome = "none"
    /\ invocations = 0 /\ cancelled = 0 /\ nSet = 0 /\ nEdge = 0 /\ nRaise = 0

NextPre == Preprocess

SpecPre == InitPre /\ [][NextPre]_vars

\* ---------------------------------------------------------------- claims

\* A step is a callback invocation exactly when it leaves outcome other than "none".
Invoked == outcome' # "none"

\* C1: an invocation that finds the interruption flag set raises
\* InferenceInterruptedError once, leaves the flag cleared and publishes nothing.
C1_InterruptedInvocationAborts ==
    [][(Invoked /\ interrupt) =>
          /\ outcome' = "raised"
          /\ nRaise' = nRaise + 1
          /\ interrupt' = FALSE
          /\ msgs' = msgs]_vars

C1_Witness == outcome = "raised" /\ ~interrupt /\ Len(msgs) >= 2

\* C2, as claimed: after n invocations the channel was handed n messages.
C2_OneMessagePerInvocation == Len(msgs) = invocations

\* C2, amended: one message per invocation that is not cancelled, and none for
\* a cancelled one.
C2_OneMessagePerCompletedInvocation == Len(msgs) = invocations - cancelled

C2_Witness == cancelled = 1 /\ Len(msgs) >= 2

\* C3: the k-th step's message carries an image exactly when k (the zero-based
\* index plus one) is a multiple of the preview cadence; otherwise "".
C3_CadenceGating ==
    \A k \in 1..Len(msgs) :
        /\ msgs[k].current_step = k
        /\ (msgs[k].image # "") <=> (\E q \in 1..k : k = q * image_decode_steps)
        /\ (msgs[k].image = "") <=> ~(\E q \in 1..k : k = q * image_decode_steps)

C3_Witness == image_decode_steps = 3 /\ Len(msgs) >= 6 /\ msgs[6].image # "" /\ msgs[5].image = ""

\* C4, as claimed: every published progress is floor(step / total_steps * 100)
\* exactly, and progress never decreases from one step to the next.
C4_ProgressExactAndMonotone ==
    /\ \A k \in 1..Len(msgs) :
          msgs[k].progress = (msgs[k].current_step * 100) \div msgs[k].total_steps
    /\ \A k \in 1..(Len(msgs) - 1) : msgs[k].progress <= msgs[k + 1].progress

\* C5, as claimed: every message is tagged "txt2img" and its progress is in 0..100.
C5_ProgressInPercentRange ==
    \A k \in 1..Len(msgs) :
        msgs[k].data_type = "txt2img" /\ msgs[k].progress \in 0..100

\* C5, amended: every message is tagged "txt2img" and its progress is a natural
\* number, in 0..100 whenever the step number does not exceed total_steps and at
\* least 100 otherwise.
C5_ProgressInRangeWithinTotal ==
    \A k \in 1..Len(msgs) :
        /\ msgs[k].data_type = "txt2img"
        /\ msgs[k].progress \in Nat
        /\ msgs[k].current_step <= msgs[k].total_steps => msgs[k].progress \in 0..100
        /\ msgs[k].current_step > msgs[k].total_steps => msgs[k].progress >= 100

C5_Witness ==
    /\ current_steps >= 2
    /\ Len(msgs) > current_steps
    /\ msgs[current_steps].progress = 100
    /\ msgs[1].progress < 100

\* C6: the messages of a run are in the order of the invocations: current_step
\* strictly increases along them, and no invocation publishes more than once.
C6_PublishedInCallOrder ==
    /\ \A k \in 1..(Len(msgs) - 1) : msgs[k].current_step < msgs[k + 1].current_step
    /\ Len(msgs) <= invocations

C6_Witness == Len(msgs) >= 3 /\ pc = "running"

\* C7, as claimed: one cancellation for every time the controller sets the flag
\* (counting the cancellation still pending while the flag is set).
C7_OneCancellationPerSet == nRaise + (IF interrupt THEN 1 ELSE 0) = nSet

\* C7, amended: one cancellation for every change of the flag from clear to set
\* (a set that finds the flag already set is absorbed by the pending one); an
\* invocation raises exactly when it finds the flag set, so at the first
\* invocation after the set, and clears it; at most one cancellation per run.
C7_OneCancellationPerRisingEdge ==
    /\ [](nRaise + (IF interrupt THEN 1 ELSE 0) = nEdge /\ cancelled <= 1)
    /\ [][Invoked =>
             /\ (outcome' = "raised") <=> interrupt
             /\ outcome' = "raised" => ~interrupt']_vars

C7_Witness == nRaise = 2 /\ outcome = "published" /\ ~interrupt

\* C8: an invocation leaves the preview cadence and the total-steps count as
\* they were, and changes the interruption flag only from set to clear.
C8_CallbackFrame ==
    [][Invoked =>
          /\ image_decode_steps' = image_decode_steps
          /\ current_steps' = current_steps
          /\ ~interrupt => ~interrupt'
          /\ interrupt' # interrupt => (interrupt /\ ~interrupt')]_vars

C8_Witness == outcome = "published" /\ Len(msgs) = current_steps /\ current_steps >= 2

\* The file carries all eight keys.
AllPresent == FieldSet \subseteq DOMAIN text

ImageArgument ==
    \/ image.kind = "image"
    \/ (image.kind = "list" /\ image.items # <<>> /\ image.items[1].type = "Image")

Items == IF image.kind = "image" THEN <<image.img>> ELSE image.items

\* One entry per image in input order, 3 channels, the first image's size rounded
\* down to multiples of 32, in (batch, channel, height, width) layout.
RoundedBatch ==
    /\ pre.kind = "tensor"
    /\ pre.shape = <<Len(Items), 3, Items[1].h - (Items[1].h % 32),
                     Items[1].w - (Items[1].w % 32)>>
    /\ pre.shape[3] % 32 = 0
    /\ pre.shape[4] % 32 = 0
    /\ Len(pre.data) = Len(Items)
    /\ \A k \in 1..Len(Items) : pre.data[k] = [num |-> 2 * Items[k].px - 255, den |-> 255]

\* C10, as claimed: every image or list of images comes out as that batch.
C10_BatchOfRoundedImages == (pre.kind # "none" /\ ImageArgument) => RoundedBatch

\* C10, amended: it does when every image is RGB and the first image is at least
\* 32 pixels wide and 32 high.
C10_BatchOfRoundedRGBImages ==
    (/\ pre.kind # "none"
     /\ ImageArgument
     /\ \A k \in 1..Len(Items) : Items[k].mode = "RGB"
     /\ Items[1].w >= 32
     /\ Items[1].h >= 32) => RoundedBatch

C10_Witness ==
    /\ pre.kind = "tensor"
    /\ image.kind = "list"
    /\ Len(image.items) = 2
    /\ image.items[1].type = "Image"
    /\ image.items[1].w = 500 /\ image.items[1].h = 700
    /\ image.items[2].w = 64
    /\ pre.shape = <<2, 3, 672, 480>>

====
